---- MODULE Spec2Model ----
(***************************************************************************)
(* Model of the Fabric capacity runbooks of l2aFa/rafabric:                *)
(*   StatusManager  - the start/stop runbook (src/unnamed/part_001)        *)
(*   ScaleManager   - the scale runbook with the retry loop                *)
(*                    (src/powershell/FabricCapacityScaleManager.ps1)      *)
(*   ScalePreview   - the scale runbook without a loop, api version        *)
(*                    2022-07-01-preview (src/unnamed/part_003)            *)
(* Every invocation p runs one script.  The network calls, sleeps, throws  *)
(* and messages of an invocation are recorded, in order, in trace[p].      *)
(***************************************************************************)
EXTENDS Integers, Sequences, FiniteSets, TLC

VARIABLES script, Action, SkuSize, pc, StopLoop, RetryCount, CapacityStatus,
          RequestPayload, exception, error, attempt, trace,
          capacity,                     \* state of the capacity on the platform
          ns, lookups, requests, cellRuns   \* notebook session of job_scheduler_pattern

params == <<script, Action, SkuSize>>
locals == <<StopLoop, RetryCount, CapacityStatus, RequestPayload>>
notebook == <<ns, lookups, requests, cellRuns>>
runbooks == <<script, Action, SkuSize, pc, StopLoop, RetryCount, CapacityStatus,
              RequestPayload, exception, error, attempt, trace>>
vars == <<script, Action, SkuSize, pc, StopLoop, RetryCount, CapacityStatus,
          RequestPayload, exception, error, attempt, trace,
          capacity, ns, lookups, requests, cellRuns>>

(* ------------------------------ bounds --------------------------------- *)

\* attempts after which the model stops exploring a run (never reached by the code)
MaxAttempts == 7
\* longest run of the start/stop runbook that a run of the scale runbook is compared with
PairAttempts == 2
\* attempts of each of two concurrent invocations
ConcAttempts == 1
\* sample cells run in one notebook session
MaxCellRuns == 4

(* ----------------------------- constants ------------------------------- *)

RetryLimit == 3
SleepSeconds == 30
Accepted == 202

Procs == {1, 2}
Scripts == {"StatusManager", "ScaleManager", "ScalePreview"}
LoopScripts == {"StatusManager", "ScaleManager"}
ScaleScripts == {"ScaleManager", "ScalePreview"}

\* values of the Action parameter (a free string)
Actions == {"resume", "suspend", "Resume", "restart"}
\* values of the SkuSize parameter (a free string)
SkuSizes == {"F2", "F64"}
\* properties.state of the GET response; NullStatus when the response has none
NullStatus == "$null"
StatusValues == {"Active", "Paused", "paused", "Scaling", NullStatus}
\* status codes of a POST or PATCH that returns
ResponseCodes == {202, 409}

\* messages of the throw statements
LoginFailed == "login failed"
CallFailed == "call failed"
NotRunning == "Capacity is not running, please check capacity status before attempting to scale."
NoStatus == "Could not retrieve capacity status, please check the parameters provided."
Unable == "Unable to access the capacity after three retries. Failed to perform any action."

(* ------------------------------ helpers -------------------------------- *)

\* PowerShell compares strings with -eq without regard to case
Lower(s) ==
  CASE s = "Active" -> "active"
    [] s = "Paused" -> "paused"
    [] s = "Resume" -> "resume"
    [] s = "Suspend" -> "suspend"
    [] OTHER -> s

Eq(a, b) == Lower(a) = Lower(b)

\* the two states the switch statements know
Recognized(s) == Eq(s, "Active") \/ Eq(s, "Paused")

NoPayload == [sku |-> [name |-> "", tier |-> ""]]

Ev(type, arg, result, code, payload, att) ==
  [type |-> type, arg |-> arg, result |-> result, code |-> code,
   payload |-> payload, attempt |-> att]

Out(msg, att) == Ev("out", msg, "", 0, NoPayload, att)
Err(msg, att) == Ev("err", msg, "", 0, NoPayload, att)
Sleep(att) == Ev("sleep", "", "", SleepSeconds, NoPayload, att)
Throw(msg, att) == Ev("throw", msg, "", 0, NoPayload, att)
Get(result, att) == Ev("GET", "capacity", result, 0, NoPayload, att)
Post(endpoint, result, code, att) == Ev("POST", endpoint, result, code, NoPayload, att)
Patch(payload, result, code, att) == Ev("PATCH", "capacity", result, code, payload, att)

\* mutant of Payload: the two values of the sku are exchanged
Payload_Swapped(sku) == [sku |-> [name |-> "Fabric", tier |-> sku]]

\* $RequestPayload = @{ sku = @{ name = $SkuSize; tier = 'Fabric' } }
Payload(sku) == [sku |-> [name |-> sku, tier |-> "Fabric"]]

Set(f, p, v) == [f EXCEPT ![p] = v]
Log(p, evs) == trace' = [trace EXCEPT ![p] = @ \o evs]

(* ------------------------ notebook session ----------------------------- *)

\* variables the sample cells of job_scheduler_pattern assign
Names == {"workspace_id", "artifact_name", "artifact_type", "artifact_id",
          "scheduler_sample_param_01", "scheduler_sample_param_02",
          "job_type", "rest_api_uri", "payload", "response"}
\* a name that no cell of the session has assigned yet
Undefined == "<undefined>"

(* ------------------------------- Init ---------------------------------- *)

InitRuns(runs) ==
  /\ script \in [Procs -> Scripts]
  /\ Action \in [Procs -> Actions]
  /\ SkuSize \in [Procs -> SkuSizes]
  /\ \A p \in Procs \ runs :
       script[p] = "StatusManager" /\ Action[p] = "resume" /\ SkuSize[p] = "F2"
  /\ \A p \in runs :
       /\ script[p] = "StatusManager" => SkuSize[p] = "F2"
       /\ script[p] # "StatusManager" => Action[p] = "resume"
  /\ pc = [p \in Procs |-> IF p \in runs THEN "login" ELSE "idle"]
  /\ StopLoop = [p \in Procs |-> FALSE]
  /\ RetryCount = [p \in Procs |-> 0]
  /\ CapacityStatus = [p \in Procs |-> NullStatus]
  /\ RequestPayload = [p \in Procs |-> NoPayload]
  /\ exception = [p \in Procs |-> ""]
  /\ error = [p \in Procs |-> ""]
  /\ attempt = [p \in Procs |-> 0]
  /\ trace = [p \in Procs |-> <<>>]
  /\ capacity \in StatusValues
  /\ ns = [n \in Names |-> Undefined]
  /\ lookups = <<>>
  /\ requests = <<>>
  /\ cellRuns = <<>>

Init == InitRuns({1})

(* ----------------------------- the platform ---------------------------- *)

\* the capacity belongs to the platform, which changes its state at any time;
\* a status GET returns the state of that moment
Platform_Change ==
  /\ \E s \in StatusValues : s # capacity /\ capacity' = s
  /\ UNCHANGED <<runbooks, notebook>>

(* ------------- StatusManager: start/stop runbook (part_001) ------------ *)

\* mutant of Status_Login: the catch of the login writes the error and does
\* not throw it again
Status_Login_Swallow(p) ==
  /\ pc[p] = "login" /\ script[p] = "StatusManager"
  /\ \/ /\ Log(p, <<Out("Logging into Azure", 0)>>)
        /\ UNCHANGED exception
     \/ /\ Log(p, <<Out("Logging into Azure", 0), Err(LoginFailed, 0)>>)
        /\ exception' = Set(exception, p, LoginFailed)
  /\ StopLoop' = Set(StopLoop, p, FALSE)
  /\ RetryCount' = Set(RetryCount, p, 0)
  /\ pc' = Set(pc, p, "get")
  /\ UNCHANGED <<params, CapacityStatus, RequestPayload, error, attempt, capacity, notebook>>

\* lines 27-39: Connect-AzAccount, then the loop variables
Status_Login(p) ==
  /\ pc[p] = "login" /\ script[p] = "StatusManager"
  /\ \/ /\ Log(p, <<Out("Logging into Azure", 0)>>)
        /\ StopLoop' = Set(StopLoop, p, FALSE)
        /\ RetryCount' = Set(RetryCount, p, 0)
        /\ pc' = Set(pc, p, "get")
        /\ UNCHANGED <<exception, error>>
     \/ /\ Log(p, <<Out("Logging into Azure", 0), Err(LoginFailed, 0), Throw(LoginFailed, 0)>>)
        /\ exception' = Set(exception, p, LoginFailed)
        /\ error' = Set(error, p, LoginFailed)
        /\ pc' = Set(pc, p, "failed")
        /\ UNCHANGED <<StopLoop, RetryCount>>
  /\ UNCHANGED <<params, CapacityStatus, RequestPayload, attempt, capacity, notebook>>

\* lines 42-51: do { try { GET, ConvertFrom-Json, properties.state
Status_GetStatus(p) ==
  /\ pc[p] = "get" /\ script[p] = "StatusManager"
  /\ attempt[p] < MaxAttempts
  /\ attempt' = Set(attempt, p, attempt[p] + 1)
  /\ \/ LET s == capacity IN
          /\ CapacityStatus' = Set(CapacityStatus, p, s)
          /\ Log(p, <<Out("Obtaining status", attempt'[p]), Get(s, attempt'[p]),
                      Out("The current state is", attempt'[p])>>)
          /\ pc' = Set(pc, p, "switch")
          /\ UNCHANGED exception
     \/ /\ Log(p, <<Out("Obtaining status", attempt'[p]), Get("exception", attempt'[p])>>)
        /\ exception' = Set(exception, p, CallFailed)
        /\ pc' = Set(pc, p, "catch")
        /\ UNCHANGED CapacityStatus
  /\ UNCHANGED <<params, StopLoop, RetryCount, RequestPayload, error, capacity, notebook>>

\* mutant of Status_Case: the two status tests are exchanged
Status_Case_Inverted(status, action) ==
  IF Eq(status, "Paused") /\ Eq(action, "resume") THEN "AlreadyRunning"
  ELSE IF Eq(status, "Active") /\ Eq(action, "resume") THEN "Start"
  ELSE IF Eq(status, "Active") /\ Eq(action, "suspend") THEN "AlreadyStopped"
  ELSE IF Eq(status, "Paused") /\ Eq(action, "suspend") THEN "Stop"
  ELSE "Default"

\* mutant of Status_Case: the action is applied to a capacity in any known state
Status_Case_NoStatusTest(status, action) ==
  IF Recognized(status) /\ Eq(action, "resume") THEN "Start"
  ELSE IF Recognized(status) /\ Eq(action, "suspend") THEN "Stop"
  ELSE "Default"

\* mutant of Status_Case: the two clauses of suspend are missing
Status_Case_ResumeOnly(status, action) ==
  IF Eq(status, "Active") /\ Eq(action, "resume") THEN "AlreadyRunning"
  ELSE IF Eq(status, "Paused") /\ Eq(action, "resume") THEN "Start"
  ELSE "Default"

\* mutant of Status_Case: every action that is not suspend is taken as resume
Status_Case_ElseResume(status, action) ==
  IF Eq(status, "Active") /\ Eq(action, "suspend") THEN "Stop"
  ELSE IF Eq(status, "Paused") /\ Eq(action, "suspend") THEN "AlreadyStopped"
  ELSE IF Eq(status, "Active") THEN "AlreadyRunning"
  ELSE IF Eq(status, "Paused") THEN "Start"
  ELSE "Default"

\* lines 52-79: the clause of the switch that runs for a status and an action
Status_Case(status, action) ==
  IF Eq(status, "Active") /\ Eq(action, "resume") THEN "AlreadyRunning"
  ELSE IF Eq(status, "Paused") /\ Eq(action, "resume") THEN "Start"
  ELSE IF Eq(status, "Paused") /\ Eq(action, "suspend") THEN "AlreadyStopped"
  ELSE IF Eq(status, "Active") /\ Eq(action, "suspend") THEN "Stop"
  ELSE "Default"

\* mutant of Status_Post: the loop is stopped only when the POST is accepted
Status_Post_NoStop(p, msg) ==
  \/ /\ Log(p, <<Post(Action[p], "exception", 0, attempt[p])>>)
     /\ exception' = Set(exception, p, CallFailed)
     /\ pc' = Set(pc, p, "catch")
     /\ UNCHANGED StopLoop
  \/ \E c \in ResponseCodes :
       /\ Log(p, <<Post(Action[p], "returned", c, attempt[p])>>
                 \o (IF c = Accepted THEN <<Out(msg, attempt[p])>> ELSE <<>>))
       /\ StopLoop' = Set(StopLoop, p, c = Accepted)
       /\ pc' = Set(pc, p, "while")
       /\ UNCHANGED exception

\* mutant of Status_Post: a response other than 202 is thrown as an error
Status_Post_RejectRaises(p, msg) ==
  \/ /\ Log(p, <<Post(Action[p], "exception", 0, attempt[p])>>)
     /\ exception' = Set(exception, p, CallFailed)
     /\ pc' = Set(pc, p, "catch")
     /\ UNCHANGED StopLoop
  \/ /\ Log(p, <<Post(Action[p], "returned", Accepted, attempt[p]), Out(msg, attempt[p])>>)
     /\ StopLoop' = Set(StopLoop, p, TRUE)
     /\ pc' = Set(pc, p, "while")
     /\ UNCHANGED exception
  \/ \E c \in ResponseCodes \ {Accepted} :
       /\ Log(p, <<Post(Action[p], "returned", c, attempt[p]), Throw(CallFailed, attempt[p])>>)
       /\ exception' = Set(exception, p, CallFailed)
       /\ pc' = Set(pc, p, "catch")
       /\ UNCHANGED StopLoop

\* lines 58-62 and 69-73: POST to the action endpoint, message on 202, stop the loop
Status_Post(p, msg) ==
  \/ /\ Log(p, <<Post(Action[p], "exception", 0, attempt[p])>>)
     /\ exception' = Set(exception, p, CallFailed)
     /\ pc' = Set(pc, p, "catch")
     /\ UNCHANGED StopLoop
  \/ \E c \in ResponseCodes :
       /\ Log(p, <<Post(Action[p], "returned", c, attempt[p])>>
                 \o (IF c = Accepted THEN <<Out(msg, attempt[p])>> ELSE <<>>))
       /\ StopLoop' = Set(StopLoop, p, TRUE)
       /\ pc' = Set(pc, p, "while")
       /\ UNCHANGED exception

\* lines 54-55, 65-66, 76-77: message, stop the loop
Status_NoPost(p, msg) ==
  /\ Log(p, <<Out(msg, attempt[p])>>)
  /\ StopLoop' = Set(StopLoop, p, TRUE)
  /\ pc' = Set(pc, p, "while")
  /\ UNCHANGED exception

\* mutant of Status_Switch: the clause is chosen by the state the capacity
\* has when the switch runs, as if the read and the write were one step
Status_Switch_Atomic(p) ==
  /\ pc[p] = "switch" /\ script[p] = "StatusManager"
  /\ LET c == Status_Case(capacity, Action[p]) IN
       CASE c = "AlreadyRunning" -> Status_NoPost(p, "already running")
         [] c = "Start" -> Status_Post(p, "successfully started")
         [] c = "AlreadyStopped" -> Status_NoPost(p, "already stopped")
         [] c = "Stop" -> Status_Post(p, "successfully stopped")
         [] OTHER -> Status_NoPost(p, "Uncontrolled case")
  /\ UNCHANGED <<params, RetryCount, CapacityStatus, RequestPayload, error, attempt, capacity, notebook>>

\* lines 52-79: switch ($CapacityStatus)
Status_Switch(p) ==
  /\ pc[p] = "switch" /\ script[p] = "StatusManager"
  /\ LET c == Status_Case(CapacityStatus[p], Action[p]) IN
       CASE c = "AlreadyRunning" -> Status_NoPost(p, "already running")
         [] c = "Start" -> Status_Post(p, "successfully started")
         [] c = "AlreadyStopped" -> Status_NoPost(p, "already stopped")
         [] c = "Stop" -> Status_Post(p, "successfully stopped")
         [] OTHER -> Status_NoPost(p, "Uncontrolled case")
  /\ UNCHANGED <<params, RetryCount, CapacityStatus, RequestPayload, error, attempt, capacity, notebook>>

\* line 83: if($RetryCount -gt 3)
Status_Exhausted(retryCount) == retryCount > RetryLimit

\* mutant of Status_Catch: the retry counter is not incremented
Status_Catch_NoCount(p) ==
  /\ pc[p] = "catch" /\ script[p] = "StatusManager"
  /\ IF Status_Exhausted(RetryCount[p])
       THEN /\ Log(p, <<Err("No action could be taken after three attempts", attempt[p]),
                       Throw(Unable, attempt[p])>>)
            /\ StopLoop' = Set(StopLoop, p, TRUE)
            /\ error' = Set(error, p, Unable)
            /\ pc' = Set(pc, p, "failed")
            /\ UNCHANGED RetryCount
       ELSE /\ Log(p, <<Err(exception[p], attempt[p]),
                       Out("retrying again in 30 seconds", attempt[p]),
                       Sleep(attempt[p])>>)
            /\ pc' = Set(pc, p, "while")
            /\ UNCHANGED <<StopLoop, error, RetryCount>>
  /\ UNCHANGED <<params, CapacityStatus, RequestPayload, exception, attempt, capacity, notebook>>

\* mutant of Status_Catch: a retry adds two to the counter
Status_Catch_CountTwice(p) ==
  /\ pc[p] = "catch" /\ script[p] = "StatusManager"
  /\ IF Status_Exhausted(RetryCount[p])
       THEN /\ Log(p, <<Err("No action could be taken after three attempts", attempt[p]),
                       Throw(Unable, attempt[p])>>)
            /\ StopLoop' = Set(StopLoop, p, TRUE)
            /\ error' = Set(error, p, Unable)
            /\ pc' = Set(pc, p, "failed")
            /\ UNCHANGED RetryCount
       ELSE /\ Log(p, <<Err(exception[p], attempt[p]),
                       Out("retrying again in 30 seconds", attempt[p]),
                       Sleep(attempt[p])>>)
            /\ RetryCount' = Set(RetryCount, p, RetryCount[p] + 2)
            /\ pc' = Set(pc, p, "while")
            /\ UNCHANGED <<StopLoop, error>>
  /\ UNCHANGED <<params, CapacityStatus, RequestPayload, exception, attempt, capacity, notebook>>

\* lines 82-94: catch
Status_Catch(p) ==
  /\ pc[p] = "catch" /\ script[p] = "StatusManager"
  /\ IF Status_Exhausted(RetryCount[p])
       THEN /\ Log(p, <<Err("No action could be taken after three attempts", attempt[p]),
                       Throw(Unable, attempt[p])>>)
            /\ StopLoop' = Set(StopLoop, p, TRUE)
            /\ error' = Set(error, p, Unable)
            /\ pc' = Set(pc, p, "failed")
            /\ UNCHANGED RetryCount
       ELSE /\ Log(p, <<Err(exception[p], attempt[p]),
                       Out("retrying again in 30 seconds", attempt[p]),
                       Sleep(attempt[p])>>)
            /\ RetryCount' = Set(RetryCount, p, RetryCount[p] + 1)
            /\ pc' = Set(pc, p, "while")
            /\ UNCHANGED <<StopLoop, error>>
  /\ UNCHANGED <<params, CapacityStatus, RequestPayload, exception, attempt, capacity, notebook>>

\* mutant of Status_While: a retry re-enters the switch with the status of
\* the earlier attempt
Status_While_NoReread(p) ==
  /\ pc[p] = "while" /\ script[p] = "StatusManager"
  /\ pc' = Set(pc, p, IF StopLoop[p] = FALSE THEN "switch" ELSE "done")
  /\ UNCHANGED <<params, locals, exception, error, attempt, trace, capacity, notebook>>

\* line 96: While ($StopLoop -eq $false)
Status_While(p) ==
  /\ pc[p] = "while" /\ script[p] = "StatusManager"
  /\ pc' = Set(pc, p, IF StopLoop[p] = FALSE THEN "get" ELSE "done")
  /\ UNCHANGED <<params, locals, exception, error, attempt, trace, capacity, notebook>>

(* ------ ScaleManager: scale runbook with the retry loop (.ps1) --------- *)

\* lines 28-49: Connect-AzAccount, the loop variables, the request payload
Scale_Login(p) ==
  /\ pc[p] = "login" /\ script[p] = "ScaleManager"
  /\ \/ /\ Log(p, <<Out("Logging into Azure", 0)>>)
        /\ StopLoop' = Set(StopLoop, p, FALSE)
        /\ RetryCount' = Set(RetryCount, p, 0)
        /\ RequestPayload' = Set(RequestPayload, p, Payload(SkuSize[p]))
        /\ pc' = Set(pc, p, "get")
        /\ UNCHANGED <<exception, error>>
     \/ /\ Log(p, <<Out("Logging into Azure", 0), Err(LoginFailed, 0), Throw(LoginFailed, 0)>>)
        /\ exception' = Set(exception, p, LoginFailed)
        /\ error' = Set(error, p, LoginFailed)
        /\ pc' = Set(pc, p, "failed")
        /\ UNCHANGED <<StopLoop, RetryCount, RequestPayload>>
  /\ UNCHANGED <<params, CapacityStatus, attempt, capacity, notebook>>

\* lines 52-58: do { try { GET, ConvertFrom-Json, properties.state
Scale_GetStatus(p) ==
  /\ pc[p] = "get" /\ script[p] = "ScaleManager"
  /\ attempt[p] < MaxAttempts
  /\ attempt' = Set(attempt, p, attempt[p] + 1)
  /\ \/ LET s == capacity IN
          /\ CapacityStatus' = Set(CapacityStatus, p, s)
          /\ Log(p, <<Out("Obtaining status", attempt'[p]), Get(s, attempt'[p])>>)
          /\ pc' = Set(pc, p, "switch")
          /\ UNCHANGED exception
     \/ /\ Log(p, <<Out("Obtaining status", attempt'[p]), Get("exception", attempt'[p])>>)
        /\ exception' = Set(exception, p, CallFailed)
        /\ pc' = Set(pc, p, "catch")
        /\ UNCHANGED CapacityStatus
  /\ UNCHANGED <<params, StopLoop, RetryCount, RequestPayload, error, capacity, notebook>>

\* mutant of Scale_Case: a capacity in any known state is scaled
Scale_Case_AnyKnown(status) ==
  IF Recognized(status) THEN "Scale"
  ELSE "Default"

\* lines 61-77: the clause of the switch that runs for a status
Scale_Case(status) ==
  IF Eq(status, "Active") THEN "Scale"
  ELSE IF Eq(status, "Paused") THEN "NotRunning"
  ELSE "Default"

\* lines 61-77: switch ($CapacityStatus); a throw leaves the clause before
\* its $StopLoop = $true and is caught by the catch of the loop
Scale_Switch(p) ==
  /\ pc[p] = "switch" /\ script[p] = "ScaleManager"
  /\ LET c == Scale_Case(CapacityStatus[p]) IN
       CASE c = "Scale" ->
              \/ /\ Log(p, <<Patch(RequestPayload[p], "exception", 0, attempt[p])>>)
                 /\ exception' = Set(exception, p, CallFailed)
                 /\ pc' = Set(pc, p, "catch")
                 /\ UNCHANGED StopLoop
              \/ \E rc \in ResponseCodes :
                   /\ Log(p, <<Patch(RequestPayload[p], "returned", rc, attempt[p]),
                               Out("successfully scaled", attempt[p])>>)
                   /\ StopLoop' = Set(StopLoop, p, TRUE)
                   /\ pc' = Set(pc, p, "while")
                   /\ UNCHANGED exception
         [] c = "NotRunning" ->
              /\ Log(p, <<Out("is not running", attempt[p]), Throw(NotRunning, attempt[p])>>)
              /\ exception' = Set(exception, p, NotRunning)
              /\ pc' = Set(pc, p, "catch")
              /\ UNCHANGED StopLoop
         [] OTHER ->
              /\ Log(p, <<Out("Uncontrolled case", attempt[p]), Throw(NoStatus, attempt[p])>>)
              /\ exception' = Set(exception, p, NoStatus)
              /\ pc' = Set(pc, p, "catch")
              /\ UNCHANGED StopLoop
  /\ UNCHANGED <<params, RetryCount, CapacityStatus, RequestPayload, error, attempt, capacity, notebook>>

\* line 81: if($RetryCount -gt 3)
Scale_Exhausted(retryCount) == retryCount > RetryLimit

\* mutant of Scale_Catch: the sleep comes before the test of the counter
Scale_Catch_SleepFirst(p) ==
  /\ pc[p] = "catch" /\ script[p] = "ScaleManager"
  /\ IF Scale_Exhausted(RetryCount[p])
       THEN /\ Log(p, <<Sleep(attempt[p]),
                       Err("No action could be taken after three attempts", attempt[p]),
                       Throw(Unable, attempt[p])>>)
            /\ StopLoop' = Set(StopLoop, p, TRUE)
            /\ error' = Set(error, p, Unable)
            /\ pc' = Set(pc, p, "failed")
            /\ UNCHANGED RetryCount
       ELSE /\ Log(p, <<Sleep(attempt[p]), Err(exception[p], attempt[p]),
                       Out("retrying again in 30 seconds", attempt[p])>>)
            /\ RetryCount' = Set(RetryCount, p, RetryCount[p] + 1)
            /\ pc' = Set(pc, p, "while")
            /\ UNCHANGED <<StopLoop, error>>
  /\ UNCHANGED <<params, CapacityStatus, RequestPayload, exception, attempt, capacity, notebook>>

\* lines 80-92: catch
Scale_Catch(p) ==
  /\ pc[p] = "catch" /\ script[p] = "ScaleManager"
  /\ IF Scale_Exhausted(RetryCount[p])
       THEN /\ Log(p, <<Err("No action could be taken after three attempts", attempt[p]),
                       Throw(Unable, attempt[p])>>)
            /\ StopLoop' = Set(StopLoop, p, TRUE)
            /\ error' = Set(error, p, Unable)
            /\ pc' = Set(pc, p, "failed")
            /\ UNCHANGED RetryCount
       ELSE /\ Log(p, <<Err(exception[p], attempt[p]),
                       Out("retrying again in 30 seconds", attempt[p]),
                       Sleep(attempt[p])>>)
            /\ RetryCount' = Set(RetryCount, p, RetryCount[p] + 1)
            /\ pc' = Set(pc, p, "while")
            /\ UNCHANGED <<StopLoop, error>>
  /\ UNCHANGED <<params, CapacityStatus, RequestPayload, exception, attempt, capacity, notebook>>

\* line 94: While ($StopLoop -eq $false)
Scale_While(p) ==
  /\ pc[p] = "while" /\ script[p] = "ScaleManager"
  /\ pc' = Set(pc, p, IF StopLoop[p] = FALSE THEN "get" ELSE "done")
  /\ UNCHANGED <<params, locals, exception, error, attempt, trace, capacity, notebook>>

(* ------ ScalePreview: scale runbook without a loop (part_003) ---------- *)

\* lines 28-45: Connect-AzAccount, the request payload
Preview_Login(p) ==
  /\ pc[p] = "login" /\ script[p] = "ScalePreview"
  /\ \/ /\ Log(p, <<Out("Logging into Azure", 0)>>)
        /\ RequestPayload' = Set(RequestPayload, p, Payload(SkuSize[p]))
        /\ pc' = Set(pc, p, "get")
        /\ UNCHANGED <<exception, error>>
     \/ /\ Log(p, <<Out("Logging into Azure", 0), Err(LoginFailed, 0), Throw(LoginFailed, 0)>>)
        /\ exception' = Set(exception, p, LoginFailed)
        /\ error' = Set(error, p, LoginFailed)
        /\ pc' = Set(pc, p, "failed")
        /\ UNCHANGED RequestPayload
  /\ UNCHANGED <<params, StopLoop, RetryCount, CapacityStatus, attempt, capacity, notebook>>

\* lines 47-52: try { GET, ConvertFrom-Json, properties.state
Preview_GetStatus(p) ==
  /\ pc[p] = "get" /\ script[p] = "ScalePreview"
  /\ attempt[p] < MaxAttempts
  /\ attempt' = Set(attempt, p, attempt[p] + 1)
  /\ \/ LET s == capacity IN
          /\ CapacityStatus' = Set(CapacityStatus, p, s)
          /\ Log(p, <<Out("Obtaining status", attempt'[p]), Get(s, attempt'[p])>>)
          /\ pc' = Set(pc, p, "switch")
          /\ UNCHANGED exception
     \/ /\ Log(p, <<Out("Obtaining status", attempt'[p]), Get("exception", attempt'[p])>>)
        /\ exception' = Set(exception, p, CallFailed)
        /\ pc' = Set(pc, p, "catch")
        /\ UNCHANGED CapacityStatus
  /\ UNCHANGED <<params, StopLoop, RetryCount, RequestPayload, error, capacity, notebook>>

\* lines 55-68: the clause of the switch that runs for a status
Preview_Case(status) ==
  IF Eq(status, "Active") THEN "Scale"
  ELSE IF Eq(status, "Paused") THEN "NotRunning"
  ELSE "Default"

\* lines 55-68: switch ($CapacityStatus); the script ends after the switch
Preview_Switch(p) ==
  /\ pc[p] = "switch" /\ script[p] = "ScalePreview"
  /\ LET c == Preview_Case(CapacityStatus[p]) IN
       CASE c = "Scale" ->
              \/ /\ Log(p, <<Patch(RequestPayload[p], "exception", 0, attempt[p])>>)
                 /\ exception' = Set(exception, p, CallFailed)
                 /\ pc' = Set(pc, p, "catch")
              \/ \E rc \in ResponseCodes :
                   /\ Log(p, <<Patch(RequestPayload[p], "returned", rc, attempt[p]),
                               Out("successfully scaled", attempt[p])>>)
                   /\ pc' = Set(pc, p, "done")
                   /\ UNCHANGED exception
         [] c = "NotRunning" ->
              /\ Log(p, <<Out("is not running", attempt[p]), Throw(NotRunning, attempt[p])>>)
              /\ exception' = Set(exception, p, NotRunning)
              /\ pc' = Set(pc, p, "catch")
         [] OTHER ->
              /\ Log(p, <<Out("Uncontrolled case", attempt[p]), Throw(NoStatus, attempt[p])>>)
              /\ exception' = Set(exception, p, NoStatus)
              /\ pc' = Set(pc, p, "catch")
  /\ UNCHANGED <<params, locals, error, attempt, capacity, notebook>>

\* lines 70-73: catch { Write-Error; throw $_.Exception }
Preview_Catch(p) ==
  /\ pc[p] = "catch" /\ script[p] = "ScalePreview"
  /\ Log(p, <<Err(exception[p], attempt[p]), Throw(exception[p], attempt[p])>>)
  /\ error' = Set(error, p, exception[p])
  /\ pc' = Set(pc, p, "failed")
  /\ UNCHANGED <<params, locals, exception, attempt, capacity, notebook>>

(* ------------------------------- Next ---------------------------------- *)

Step ==
  \/ \E p \in Procs : Status_Login(p)
  \/ \E p \in Procs : Status_GetStatus(p)
  \/ \E p \in Procs : Status_Switch(p)
  \/ \E p \in Procs : Status_Catch(p)
  \/ \E p \in Procs : Status_While(p)
  \/ \E p \in Procs : Scale_Login(p)
  \/ \E p \in Procs : Scale_GetStatus(p)
  \/ \E p \in Procs : Scale_Switch(p)
  \/ \E p \in Procs : Scale_Catch(p)
  \/ \E p \in Procs : Scale_While(p)
  \/ \E p \in Procs : Preview_Login(p)
  \/ \E p \in Procs : Preview_GetStatus(p)
  \/ \E p \in Procs : Preview_Switch(p)
  \/ \E p \in Procs : Preview_Catch(p)

Next ==
  \/ Step
  \/ Platform_Change

Spec == Init /\ [][Next]_vars

\* a run is a sequential script: it keeps executing until it ends
FairSpec == Spec /\ WF_vars(Step)

(* --------------------------- trace queries ----------------------------- *)

IsGet(e) == e.type = "GET"
IsWrite(e) == e.type \in {"POST", "PATCH"}
IsNet(e) == e.type \in {"GET", "POST", "PATCH"}
IsSleep(e) == e.type = "sleep"
Raised(e) == IsNet(e) /\ e.result = "exception"

Gets(p) == SelectSeq(trace[p], IsGet)
Writes(p) == SelectSeq(trace[p], IsWrite)
Net(p) == SelectSeq(trace[p], IsNet)
Sleeps(p) == SelectSeq(trace[p], IsSleep)
CallFailures(p) == SelectSeq(trace[p], Raised)

Ended(p) == pc[p] \in {"idle", "done", "failed"}

TypeOK ==
  /\ pc \in [Procs -> {"idle", "login", "get", "switch", "catch", "while", "done", "failed"}]
  /\ StopLoop \in [Procs -> BOOLEAN]
  /\ RetryCount \in [Procs -> 0..MaxAttempts]
  /\ attempt \in [Procs -> 0..MaxAttempts]
  /\ CapacityStatus \in [Procs -> StatusValues]

AttemptRaised(p, a) == \E i \in 1..Len(trace[p]) : Raised(trace[p][i]) /\ trace[p][i].attempt = a
FirstRead(p, s) == Len(Gets(p)) >= 1 /\ Gets(p)[1].result = s
\* no network call and no sleep after position i of the trace
QuietAfter(p, i) ==
  \A j \in (i + 1)..Len(trace[p]) : ~IsNet(trace[p][j]) /\ ~IsSleep(trace[p][j])

(* ------------------------------- claims -------------------------------- *)

\* C1: in the start/stop and scale runbooks, when three consecutive attempts
\* fail with an exception of a call, the terminal error is raised after the
\* third failure and there is no fourth attempt.
C1_NoFourthAttempt ==
  \A p \in Procs : script[p] \in LoopScripts =>
    \A a \in 1..MaxAttempts :
      (AttemptRaised(p, a) /\ AttemptRaised(p, a + 1) /\ AttemptRaised(p, a + 2))
        => /\ attempt[p] = a + 2
           /\ pc[p] \in {"catch", "failed"}
           /\ \A j \in 1..Len(trace[p]) : IsSleep(trace[p][j]) => trace[p][j].attempt < a + 2

\* C2: a run makes at most three retries, that is at most four attempts, and
\* the terminal error 'Unable to access the capacity after three retries' is
\* raised when the third retry fails.
C2_AtMostThreeRetries ==
  \A p \in Procs : script[p] \in LoopScripts =>
    /\ attempt[p] <= RetryLimit + 1
    /\ Len(Sleeps(p)) <= RetryLimit
    /\ error[p] = Unable => attempt[p] = RetryLimit + 1

\* C3: start/stop runbook, status read "Paused", action "resume", no call
\* raises: exactly one POST, to the resume endpoint, then the run ends
\* without terminal error and without further network call.
C3_PausedResumeOnePost ==
  \A p \in Procs :
    (script[p] = "StatusManager" /\ Action[p] = "resume"
       /\ FirstRead(p, "Paused") /\ CallFailures(p) = <<>>)
    => /\ Len(Gets(p)) = 1
       /\ error[p] = ""
       /\ pc[p] \in {"switch", "while", "done"}
       /\ pc[p] = "switch" => Len(Net(p)) = 1
       /\ pc[p] \in {"while", "done"} =>
            /\ StopLoop[p]
            /\ Len(Net(p)) = 2
            /\ Net(p)[2].type = "POST" /\ Net(p)[2].arg = "resume"
            /\ Net(p)[2].result = "returned"

C3_Witness ==
  \E p \in Procs :
    /\ script[p] = "StatusManager" /\ Action[p] = "resume"
    /\ FirstRead(p, "Paused") /\ CallFailures(p) = <<>>
    /\ pc[p] = "done" /\ Len(Writes(p)) = 1

\* C4: start/stop runbook, status read "Active", action "resume": no POST is
\* issued and the run ends normally after that single status read.
C4_ActiveResumeNoWrite ==
  \A p \in Procs :
    (script[p] = "StatusManager" /\ Action[p] = "resume") =>
      /\ FirstRead(p, "Active") =>
           /\ Writes(p) = <<>> /\ Len(Gets(p)) = 1
           /\ error[p] = ""
      /\ \A i \in 1..Len(Net(p)) :
           (IsGet(Net(p)[i]) /\ Net(p)[i].result = "Active") =>
              /\ i = Len(Net(p))
              /\ pc[p] \in {"switch", "while", "done"}
              /\ pc[p] = "while" => StopLoop[p]
              /\ Len(Sleeps(p)) = Net(p)[i].attempt - 1

C4_Witness ==
  \E p \in Procs :
    /\ script[p] = "StatusManager" /\ Action[p] = "resume"
    /\ FirstRead(p, "Active") /\ pc[p] = "done" /\ Len(Net(p)) = 1

\* C5: in the start/stop and the scale runbooks, a status read that returns
\* an unrecognized status takes the default branch and is followed by no
\* HTTP call, no retry and no sleep.
C5_UnrecognizedNoRetry ==
  \A p \in Procs :
    \A i \in 1..Len(trace[p]) :
      (IsGet(trace[p][i]) /\ trace[p][i].result # "exception"
         /\ ~Recognized(trace[p][i].result))
      => /\ QuietAfter(p, i)
         /\ pc[p] \notin {"get"}

\* C6: in every capacity script an exception of the status read or of the
\* action call leads to a sleep and a retry; the terminal error is never
\* raised on the first exception.
C6_RetryBeforeTerminal ==
  \A p \in Procs :
    (pc[p] = "failed" /\ Len(CallFailures(p)) >= 1) => Len(Sleeps(p)) >= 1

\* C7: every write call (POST or PATCH) is immediately preceded, in the same
\* attempt, by a status GET that returned, with no other network call in
\* between; a retry reads the status again.
C7_WritePrecededByGet ==
  \A p \in Procs :
    \A i \in 1..Len(Net(p)) :
      IsWrite(Net(p)[i]) =>
        /\ i > 1
        /\ IsGet(Net(p)[i - 1])
        /\ Net(p)[i - 1].result # "exception"
        /\ Net(p)[i - 1].attempt = Net(p)[i].attempt
        /\ (i = Len(Net(p)) => Net(p)[i - 1].result = CapacityStatus[p])

C7_Witness ==
  \E p \in Procs :
    \E i \in 1..Len(Net(p)) :
      i >= 3 /\ IsWrite(Net(p)[i]) /\ Net(p)[i].attempt >= 2 /\ IsWrite(Net(p)[i - 2])

\* C8: every run ends, by a normal stop of the loop or by the terminal
\* error, after a bounded number of attempts.
C8_Termination ==
  /\ \A p \in Procs : <>[](Ended(p))
  /\ [](\A p \in Procs : attempt[p] <= RetryLimit + 2)

C8_Witness ==
  \E p \in Procs :
    script[p] \in LoopScripts /\ pc[p] = "done" /\ attempt[p] = RetryLimit + 2

\* C9: scale runbook, status read "Active", no call raises: exactly one
\* PATCH with sku.name = SkuSize and sku.tier = 'Fabric', then the run ends
\* normally without further network call.
C9_ActiveOnePatch ==
  \A p \in Procs :
    (script[p] \in ScaleScripts /\ FirstRead(p, "Active") /\ CallFailures(p) = <<>>)
    => /\ Len(Gets(p)) = 1
       /\ error[p] = ""
       /\ pc[p] \in {"switch", "while", "done"}
       /\ pc[p] = "switch" => Len(Net(p)) = 1
       /\ pc[p] = "while" => StopLoop[p]
       /\ pc[p] \in {"while", "done"} =>
            /\ Len(Net(p)) = 2
            /\ Net(p)[2].type = "PATCH" /\ Net(p)[2].result = "returned"
            /\ Net(p)[2].payload.sku.name = SkuSize[p]
            /\ Net(p)[2].payload.sku.tier = "Fabric"
            /\ DOMAIN Net(p)[2].payload = {"sku"}
            /\ DOMAIN Net(p)[2].payload.sku = {"name", "tier"}

C9_Witness ==
  \E p \in Procs :
    /\ script[p] = "ScaleManager" /\ SkuSize[p] = "F64"
    /\ FirstRead(p, "Active") /\ CallFailures(p) = <<>>
    /\ pc[p] = "done" /\ Len(Writes(p)) = 1

\* C10: scale runbook, status read "Paused": no PATCH is issued and the run
\* ends with the 'capacity is not running' error straight after that status
\* read, without sleep and without second GET.
C10_PausedNotRetried ==
  \A p \in Procs : script[p] \in ScaleScripts =>
    \A i \in 1..Len(trace[p]) :
      (IsGet(trace[p][i]) /\ trace[p][i].result = "Paused")
      => /\ QuietAfter(p, i)
         /\ pc[p] \in {"switch", "catch", "failed"}
         /\ pc[p] = "failed" => error[p] = NotRunning

LoginErrored(p) ==
  \E i \in 1..Len(trace[p]) : trace[p][i].type = "err" /\ trace[p][i].arg = LoginFailed

\* C11: each script authenticates first: no capacity call (GET, POST, PATCH)
\* is issued before the login has succeeded, and a login failure aborts the
\* run with no capacity call and no retry.
C11_LoginFirst ==
  \A p \in Procs :
    /\ pc[p] \in {"idle", "login"} => (Net(p) = <<>> /\ attempt[p] = 0)
    /\ LoginErrored(p) =>
         /\ pc[p] = "failed" /\ error[p] = LoginFailed
         /\ Net(p) = <<>> /\ Sleeps(p) = <<>>
         /\ attempt[p] = 0 /\ RetryCount[p] = 0
    /\ Net(p) # <<>> =>
         /\ trace[p][1] = Out("Logging into Azure", 0)
         /\ ~LoginErrored(p)

C11_Witness ==
  \E p \in Procs : LoginErrored(p) /\ pc[p] = "failed" /\ script[p] = "StatusManager"

\* C12: a write is issued only when the status read in the same attempt is
\* the state the action applies to: POST resume only after a "Paused" read,
\* POST suspend only after an "Active" read, PATCH only after an "Active"
\* read; the POST endpoint is the requested action.  States are compared as
\* the scripts compare them (-eq).
C12_WriteMatchesStatus ==
  \A p \in Procs :
    \A i \in 1..Len(Net(p)) :
      IsWrite(Net(p)[i]) =>
        /\ i > 1
        /\ IsGet(Net(p)[i - 1])
        /\ Net(p)[i - 1].attempt = Net(p)[i].attempt
        /\ Net(p)[i].type = "POST" =>
             /\ script[p] = "StatusManager"
             /\ Net(p)[i].arg = Action[p]
             /\ \/ Eq(Action[p], "resume") /\ Eq(Net(p)[i - 1].result, "Paused")
                \/ Eq(Action[p], "suspend") /\ Eq(Net(p)[i - 1].result, "Active")
        /\ Net(p)[i].type = "PATCH" =>
             /\ script[p] \in ScaleScripts
             /\ Eq(Net(p)[i - 1].result, "Active")

C12_Witness ==
  \E p \in Procs :
    \E i \in 1..Len(Net(p)) :
      Net(p)[i].type = "PATCH" /\ Net(p)[i].attempt >= 2 /\ Net(p)[i].result = "returned"

\* C13: start/stop runbook with action "suspend": a status read of "Active"
\* leads to exactly one POST to the suspend endpoint and a normal end; a
\* status read of "Paused" leads to no write call and a normal end.
C13_SuspendSymmetric ==
  \A p \in Procs :
    (script[p] = "StatusManager" /\ Action[p] = "suspend") =>
      /\ (FirstRead(p, "Active") /\ CallFailures(p) = <<>>) =>
           /\ Len(Gets(p)) = 1
           /\ error[p] = ""
           /\ pc[p] \in {"switch", "while", "done"}
           /\ pc[p] = "switch" => Len(Net(p)) = 1
           /\ pc[p] \in {"while", "done"} =>
                /\ StopLoop[p]
                /\ Len(Net(p)) = 2
                /\ Net(p)[2].type = "POST" /\ Net(p)[2].arg = "suspend"
                /\ Net(p)[2].result = "returned"
      /\ FirstRead(p, "Paused") =>
           /\ Writes(p) = <<>> /\ Len(Gets(p)) = 1
           /\ Sleeps(p) = <<>>
           /\ error[p] = ""
           /\ pc[p] \in {"switch", "while", "done"}
           /\ pc[p] = "while" => StopLoop[p]

C13_Witness ==
  \E p \in Procs :
    /\ script[p] = "StatusManager" /\ Action[p] = "suspend"
    /\ FirstRead(p, "Active") /\ CallFailures(p) = <<>>
    /\ pc[p] = "done" /\ Len(Writes(p)) = 1

(* ------------- two runs with the same attempt outcomes ----------------- *)

\* the status GET of attempt a
ReadOf(p, a) == CHOOSE e \in { trace[p][i] : i \in 1..Len(trace[p]) } : IsGet(e) /\ e.attempt = a

\* the clause for status s issues the write call of the script
CallsForWrite(p, s) ==
  IF script[p] = "StatusManager" THEN Status_Case(s, Action[p]) \in {"Start", "Stop"}
  ELSE Scale_Case(s) = "Scale"

\* outcome of the finished attempt a
Class(p, a) ==
  IF AttemptRaised(p, a) THEN "raise"
  ELSE IF ~Recognized(ReadOf(p, a).result) THEN "unrecognized"
  ELSE IF CallsForWrite(p, ReadOf(p, a).result) THEN "write"
  ELSE "nowrite"

Outcomes(p) == [a \in 1..attempt[p] |-> Class(p, a)]

\* no attempt is under way
AtBoundary(p) == pc[p] \in {"get", "done", "failed"}

\* the finished attempts of run 2 had the outcomes of the same attempts of run 1
SameOutcomes ==
  \A a \in 1..attempt[2] :
    (a < attempt[2] \/ AtBoundary(2)) => (a <= attempt[1] /\ Class(2, a) = Class(1, a))

\* the outcomes of the attempts of run p are of the three kinds compared
InClaim(p) == \A a \in 1..attempt[p] : Class(p, a) \in {"raise", "write", "unrecognized"}

\* run 1 has ended, and run 2 has made fewer attempts or is inside one
Behind ==
  /\ Ended(1) /\ InClaim(1) /\ attempt[1] <= PairAttempts
  /\ ~(AtBoundary(2) /\ attempt[2] >= attempt[1])

PairInit ==
  /\ InitRuns({1, 2})
  /\ script[1] = "StatusManager" /\ script[2] = "ScaleManager"
  /\ Action[1] \in {"resume", "suspend"} /\ SkuSize[2] = "F2"

\* run 1 (start/stop) runs to its end; then run 2 (scale) makes the same
\* number of attempts with the same outcomes
PairNext ==
  \/ Status_Login(1)
  \/ Status_GetStatus(1)
  \/ Status_Switch(1)
  \/ Status_Catch(1)
  \/ Status_While(1)
  \/ Behind /\ Scale_Login(2) /\ SameOutcomes'
  \/ Behind /\ Scale_GetStatus(2) /\ SameOutcomes'
  \/ Behind /\ Scale_Switch(2) /\ SameOutcomes'
  \/ Behind /\ Scale_Catch(2) /\ SameOutcomes'
  \/ Behind /\ Scale_While(2) /\ SameOutcomes'
  \/ (\E p \in Procs : pc[p] = "get") /\ Platform_Change

PairSpec == PairInit /\ [][PairNext]_vars

\* C14: the start/stop runbook and the retrying scale runbook follow the
\* same control pattern: for the same sequence of attempt outcomes (call
\* raises an exception, status calls for a write, status unrecognized) both
\* make the same number of attempts and sleeps and reach the same kind of
\* end.
C14_SamePattern ==
  (Ended(1) /\ AtBoundary(2) /\ attempt[1] >= 1 /\ attempt[2] = attempt[1]
     /\ InClaim(1) /\ Outcomes(2) = Outcomes(1))
  => /\ pc[2] = pc[1]
     /\ Len(Sleeps(2)) = Len(Sleeps(1))
     /\ Len(Gets(2)) = Len(Gets(1))

IsPace(e) == IsGet(e) \/ IsSleep(e)
\* the status reads (one per attempt) and the sleeps of a run, in order
Pace(p) == SelectSeq(trace[p], IsPace)
\* attempt a ended in the catch: a call raised or a clause threw
AttemptThrew(p, a) ==
  \E i \in 1..Len(trace[p]) :
    trace[p][i].attempt = a /\ (Raised(trace[p][i]) \/ trace[p][i].type = "throw")

\* C15: between two consecutive attempts of a run there is exactly one
\* 30-second sleep; there is no sleep before the first attempt, after a
\* successful attempt, or between the last failed attempt and the terminal
\* error.
C15_OneSleepBetweenAttempts ==
  \A p \in Procs :
    /\ \A i \in 1..Len(Pace(p)) :
         /\ i % 2 = 1 => (IsGet(Pace(p)[i]) /\ Pace(p)[i].attempt = (i + 1) \div 2)
         /\ i % 2 = 0 =>
              /\ IsSleep(Pace(p)[i])
              /\ Pace(p)[i].code = SleepSeconds
              /\ Pace(p)[i].attempt = i \div 2
              /\ AttemptThrew(p, i \div 2)
    /\ Ended(p) => Len(Pace(p)) % 2 = 1 \/ Len(Pace(p)) = 0
    /\ Len(Sleeps(p)) = RetryCount[p]

C15_Witness ==
  \E p \in Procs : pc[p] = "failed" /\ error[p] = Unable /\ Len(Sleeps(p)) = RetryLimit + 1

ReturnedWrite(e) == IsWrite(e) /\ e.result = "returned"

\* C16: once a write call (POST or PATCH) has returned without exception the
\* run stops: no status read, write call or sleep follows, so at most one
\* write returns normally per run.
C16_StopAfterWrite ==
  \A p \in Procs :
    /\ \A i \in 1..Len(trace[p]) :
         ReturnedWrite(trace[p][i]) =>
           /\ QuietAfter(p, i)
           /\ pc[p] \in {"while", "done"}
           /\ pc[p] = "while" => StopLoop[p]
           /\ error[p] = ""
    /\ Len(SelectSeq(trace[p], ReturnedWrite)) <= 1

C16_Witness ==
  \E p \in Procs :
    /\ pc[p] = "done" /\ Len(Writes(p)) >= 2
    /\ ReturnedWrite(Writes(p)[Len(Writes(p))])
    /\ Writes(p)[1].result = "exception"

\* C17: a write call that returns without exception but without success (a
\* POST whose status code is not 202, any PATCH response) is neither retried
\* nor made a terminal error: the run ends normally; the start/stop runbook
\* omits its success message, the scale runbook logs success whatever the
\* response.
C17_RejectedWriteEndsRun ==
  \A p \in Procs :
    \A i \in 1..Len(trace[p]) :
      /\ (ReturnedWrite(trace[p][i]) /\ trace[p][i].code # Accepted) =>
           /\ QuietAfter(p, i)
           /\ \A j \in (i + 1)..Len(trace[p]) : trace[p][j].type \notin {"throw", "err"}
           /\ pc[p] \in {"while", "done"}
           /\ pc[p] = "while" => StopLoop[p]
           /\ error[p] = ""
           /\ trace[p][i].type = "POST" =>
                \A j \in 1..Len(trace[p]) :
                  ~(trace[p][j].type = "out" /\
                    trace[p][j].arg \in {"successfully started", "successfully stopped"})
      /\ (ReturnedWrite(trace[p][i]) /\ trace[p][i].type = "PATCH") =>
           /\ i < Len(trace[p])
           /\ trace[p][i + 1] = Out("successfully scaled", trace[p][i].attempt)
           /\ i + 1 = Len(trace[p])

C17_Witness ==
  \E p \in Procs :
    /\ pc[p] = "done" /\ script[p] = "StatusManager"
    /\ \E i \in 1..Len(trace[p]) :
         ReturnedWrite(trace[p][i]) /\ trace[p][i].code # Accepted

FirstReadReturned(p) == Len(Gets(p)) >= 1 /\ Gets(p)[1].result # "exception"
Logged(p, msg) == \E i \in 1..Len(trace[p]) : trace[p][i].type = "out" /\ trace[p][i].arg = msg

\* what C18 states of a run of the start/stop runbook whose first status
\* read returned: the default branch, no write, one read, no retry, no error
DefaultBranchOnly(p) ==
  /\ Writes(p) = <<>>
  /\ Len(Gets(p)) = 1 /\ Sleeps(p) = <<>>
  /\ error[p] = ""
  /\ pc[p] \in {"switch", "while", "done"}
  /\ pc[p] = "while" => StopLoop[p]
  /\ pc[p] \in {"while", "done"} => Logged(p, "Uncontrolled case")

\* C18 (as stated): in the start/stop runbook an Action value other than
\* "resume" or "suspend", with any status, falls into the default branch: no
\* write call, 'Uncontrolled case' logged, the run ends after one status
\* read without retry and without terminal error.
C18_OtherActionDefault ==
  \A p \in Procs :
    (script[p] = "StatusManager" /\ Action[p] \notin {"resume", "suspend"}
       /\ FirstReadReturned(p))
    => DefaultBranchOnly(p)

\* C18 (amended): the same for an Action value that equals neither "resume"
\* nor "suspend" when compared as the switch compares it (-eq, without
\* regard to case).
C18_OtherActionDefault_Eq ==
  \A p \in Procs :
    (script[p] = "StatusManager"
       /\ ~Eq(Action[p], "resume") /\ ~Eq(Action[p], "suspend")
       /\ FirstReadReturned(p))
    => DefaultBranchOnly(p)

C18_Witness ==
  \E p \in Procs :
    /\ script[p] = "StatusManager" /\ Action[p] = "restart"
    /\ FirstRead(p, "Paused") /\ pc[p] = "done"

(* ------------------- two concurrent invocations ------------------------ *)

ConcInit ==
  /\ InitRuns({1, 2})
  /\ \A p \in Procs : script[p] = "StatusManager" /\ Action[p] = "resume"
  /\ capacity = "Paused"

\* the steps of the two invocations interleave freely; nothing orders them
ConcNext ==
  \/ \E p \in Procs : Status_Login(p)
  \/ \E p \in Procs : attempt[p] < ConcAttempts /\ Status_GetStatus(p)
  \/ \E p \in Procs : Status_Switch(p)
  \/ \E p \in Procs : Status_Catch(p)
  \/ \E p \in Procs : Status_While(p)
  \/ Platform_Change

ConcSpec == ConcInit /\ [][ConcNext]_vars

\* C19: the status check and the write are not atomic and the script takes
\* no lock: a step of one invocation never touches or waits for the other,
\* and the switch of an invocation that read "Paused" issues its POST
\* whatever the capacity's state has become; with two concurrent "resume"
\* invocations on a Paused capacity both can read "Paused" and both POST.
C19_CheckThenAct ==
  [][ \A p \in Procs :
        /\ (pc[p] = "switch" /\ pc'[p] # "switch"
              /\ Eq(CapacityStatus[p], "Paused") /\ Eq(Action[p], "resume"))
           => /\ Len(Writes(p)') = Len(Writes(p)) + 1
              /\ Writes(p)'[Len(Writes(p)')].type = "POST"
        /\ pc'[p] # pc[p] =>
             \A q \in Procs \ {p} :
               /\ pc'[q] = pc[q] /\ trace'[q] = trace[q]
               /\ CapacityStatus'[q] = CapacityStatus[q]
               /\ capacity' = capacity ]_vars

\* both invocations read "Paused" and both sent their POST
C19_Witness ==
  /\ \A p \in Procs : FirstRead(p, "Paused") /\ Len(Writes(p)) = 1
  /\ Writes(1)[1].type = "POST" /\ Writes(2)[1].type = "POST"

\* invocation 1 has sent its POST; invocation 2 is between its read of
\* "Paused" and its write while the capacity is "Active"
C19_StaleRead ==
  /\ Len(Writes(1)) = 1 /\ Writes(1)[1].result = "returned"
  /\ pc[2] = "switch" /\ CapacityStatus[2] = "Paused" /\ capacity = "Active"

(* ------------------- job_scheduler_pattern sample cells ---------------- *)

\* Python's None
None == "None"
\* what get_artifact_guid_by_name can hand back: nothing, an empty
\* identifier, or the GUID of the artifact
ArtifactGuid == "artifact-guid"
LookupResults == {None, "", ArtifactGuid}
\* "not artifact_id"
Not(v) == v \in {None, ""}
\* the workspace fabric.get_workspace_id() returns
CurrentWorkspace == "current-workspace-guid"
\* an optional argument the call leaves out
Omitted == "<default>"
FirstValue == "I was passed first"
SecondValue == "I was second"
\* status codes of the response fabric_rest_api_caller returns
Responses == {202, 400}

\* f"v1/workspaces/{workspace_id}/items/{artifact_id}/jobs/instances?jobType={job_type}"
Uri(workspace_id, artifact_id, job_type) ==
  <<"v1/workspaces/", workspace_id, "/items/", artifact_id,
    "/jobs/instances?jobType=", job_type>>

Lookup(run, name, workspace, type, result) ==
  [run |-> run, artifact_name |-> name, workspace |-> workspace,
   artifact_type |-> type, result |-> result]

\* raise: the cell stops; what it assigned so far stays in the session
Raise(cell, env, what) ==
  /\ ns' = env
  /\ requests' = requests
  /\ cellRuns' = Append(cellRuns, [cell |-> cell, outcome |-> what])

\* response = fabric_rest_api_caller(source_uri=rest_api_uri, method="post",
\*                                   audience="fabric", source_payload=payload)
Call(cell, env, resp) ==
  /\ requests' = Append(requests,
        [run |-> Len(cellRuns) + 1, source_uri |-> env["rest_api_uri"],
         method |-> "post", audience |-> "fabric",
         source_payload |-> env["payload"]])
  /\ ns' = [env EXCEPT !["response"] = [status_code |-> resp]]
  /\ cellRuns' = Append(cellRuns, [cell |-> cell, outcome |-> "called"])

\* lines 155-174 of the pipeline cell: parameters, URI, payload, call
Pipeline_Request(env, resp) ==
  LET e1 == [env EXCEPT !["scheduler_sample_param_01"] = FirstValue,
                        !["scheduler_sample_param_02"] = SecondValue,
                        !["job_type"] = "Pipeline"]
      e2 == [e1 EXCEPT !["rest_api_uri"] =
                          Uri(e1["workspace_id"], e1["artifact_id"], e1["job_type"])]
      e3 == [e2 EXCEPT !["payload"] =
               [executionData |-> [parameters |->
                  [pipeline_sample_param_01 |-> e2["scheduler_sample_param_01"],
                   pipeline_sample_param_02 |-> e2["scheduler_sample_param_02"]]]]]
  IN Call("pipeline", e3, resp)

\* mutant of Pipeline_Cell: the cell without its "if not artifact_id" test
Pipeline_Cell_NoGuard ==
  /\ Len(cellRuns) < MaxCellRuns
  /\ \E guid \in LookupResults, resp \in Responses :
       LET e1 == [ns EXCEPT !["workspace_id"] = CurrentWorkspace,
                            !["artifact_name"] = "YOUR_PIPELINE_NAME_HERE",
                            !["artifact_type"] = "DataPipeline"]
           e2 == [e1 EXCEPT !["artifact_id"] = guid]
       IN /\ lookups' = Append(lookups,
                Lookup(Len(cellRuns) + 1, e1["artifact_name"],
                       e1["workspace_id"], e1["artifact_type"], guid))
          /\ Pipeline_Request(e2, resp)
  /\ UNCHANGED <<runbooks, capacity>>

\* lines 141-174: the Fabric Data Factory pipeline sample cell
Pipeline_Cell ==
  /\ Len(cellRuns) < MaxCellRuns
  /\ \E guid \in LookupResults, resp \in Responses :
       LET e1 == [ns EXCEPT !["workspace_id"] = CurrentWorkspace,
                            !["artifact_name"] = "YOUR_PIPELINE_NAME_HERE",
                            !["artifact_type"] = "DataPipeline"]
           e2 == [e1 EXCEPT !["artifact_id"] = guid]
       IN /\ lookups' = Append(lookups,
                Lookup(Len(cellRuns) + 1, e1["artifact_name"],
                       e1["workspace_id"], e1["artifact_type"], guid))
          /\ IF Not(e2["artifact_id"])
               THEN Raise("pipeline", e2, "Exception")
               ELSE Pipeline_Request(e2, resp)
  /\ UNCHANGED <<runbooks, capacity>>

\* lines 207-236: the Spark/Python notebook sample cell
Notebook_Cell ==
  /\ Len(cellRuns) < MaxCellRuns
  /\ \E guid \in LookupResults, resp \in Responses :
       LET e1 == [ns EXCEPT !["workspace_id"] = "YOUR_WORKSPACE_GUID/NAME_HERE",
                            !["artifact_name"] = "YOUR_NOTEBOOK_NAME_HERE"]
           e2 == [e1 EXCEPT !["artifact_id"] = guid]
           e3 == [e2 EXCEPT !["scheduler_sample_param_01"] = FirstValue,
                            !["scheduler_sample_param_02"] = SecondValue,
                            !["job_type"] = "RunNotebook"]
           e4 == [e3 EXCEPT !["rest_api_uri"] =
                    Uri(e3["workspace_id"], e3["artifact_id"], e3["job_type"])]
           e5 == [e4 EXCEPT !["payload"] =
                    [executionData |-> [parameters |->
                       [notebook_sample_param_01 |->
                          [value |-> e4["scheduler_sample_param_01"], type |-> "string"],
                        notebook_sample_param_02 |->
                          [value |-> e4["scheduler_sample_param_01"], type |-> "string"]]]]]
       IN /\ lookups' = Append(lookups,
                Lookup(Len(cellRuns) + 1, e1["artifact_name"], Omitted, Omitted, guid))
          /\ IF Not(e2["artifact_id"])
               THEN Raise("notebook", e2, "Exception")
               ELSE Call("notebook", e5, resp)
  /\ UNCHANGED <<runbooks, capacity>>

\* lines 269-302: the Dataflow Gen2 sample cell
Dataflow_Cell ==
  /\ Len(cellRuns) < MaxCellRuns
  /\ \E guid \in LookupResults, resp \in Responses :
       LET e1 == [ns EXCEPT !["artifact_name"] = "YOUR_DATAFLOW_NAME_HERE",
                            !["artifact_type"] = "Dataflow"]
           e2 == [e1 EXCEPT !["artifact_id"] = guid]
           e3 == [e2 EXCEPT !["scheduler_sample_param_01"] = FirstValue,
                            !["scheduler_sample_param_02"] = SecondValue,
                            !["job_type"] = "Refresh"]
           e4 == [e3 EXCEPT !["rest_api_uri"] =
                    Uri(e3["workspace_id"], e3["artifact_id"], e3["job_type"])]
           e5 == [e4 EXCEPT !["payload"] =
                    [executionData |-> [parameters |->
                       << [parameterName |-> "dataflow_sample_param_01",
                           type |-> "Text",
                           value |-> e4["scheduler_sample_param_01"]],
                          [parameterName |-> "dataflow_sample_param_02",
                           type |-> "Text",
                           value |-> e4["scheduler_sample_param_02"]] >>]]]
       IN /\ lookups' = Append(lookups,
                Lookup(Len(cellRuns) + 1, e1["artifact_name"], Omitted,
                       e1["artifact_type"], guid))
          /\ IF Not(e2["artifact_id"])
               THEN Raise("dataflow", e2, "Exception")
               ELSE IF e3["workspace_id"] = Undefined
                 THEN Raise("dataflow", e3, "NameError")
                 ELSE Call("dataflow", e5, resp)
  /\ UNCHANGED <<runbooks, capacity>>

\* the session after the imports cell; no runbook runs
NbInit == InitRuns({})

\* the user runs the sample cells in any order, any number of times
NbNext == Pipeline_Cell \/ Notebook_Cell \/ Dataflow_Cell

NotebookSpec == NbInit /\ [][NbNext]_vars

Cells == {"pipeline", "notebook", "dataflow"}

\* every cell run made one lookup, and a request belongs to one cell run
NbTypeOK ==
  /\ Len(lookups) = Len(cellRuns) /\ Len(cellRuns) <= MaxCellRuns
  /\ \A i \in 1..Len(cellRuns) :
       /\ lookups[i].run = i /\ lookups[i].result \in LookupResults
       /\ cellRuns[i].cell \in Cells
       /\ cellRuns[i].outcome \in {"called", "Exception", "NameError"}
  /\ \A j \in 1..Len(requests) : requests[j].run \in 1..Len(cellRuns)

RequestsOf(i) == {j \in 1..Len(requests) : requests[j].run = i}

\* C20: in each of the three sample cells, when get_artifact_guid_by_name
\* returns no identifier the cell raises its exception and
\* fabric_rest_api_caller is not called: that cell run sends no request.
C20_NotFoundNoRequest ==
  \A i \in 1..Len(cellRuns) :
    Not(lookups[i].result) =>
      /\ cellRuns[i].outcome = "Exception"
      /\ RequestsOf(i) = {}

\* each of the three cells has run with a lookup that found nothing, and a
\* cell whose lookup found the artifact has sent its request
C20_Witness ==
  /\ \A c \in Cells : \E i \in 1..Len(cellRuns) :
       /\ cellRuns[i].cell = c /\ Not(lookups[i].result)
       /\ cellRuns[i].outcome = "Exception" /\ RequestsOf(i) = {}
  /\ \E i \in 1..Len(cellRuns) :
       ~Not(lookups[i].result) /\ RequestsOf(i) # {}

(* ------------------------- the sample payloads -------------------------- *)

\* the cell that sent request j
CellOf(j) == cellRuns[requests[j].run].cell

\* the value the payload of a cell carries for the artifact's parameter
\* "<artifact>_sample_param_01" (k = 1) or "..._02" (k = 2): a flat mapping
\* for the pipeline, typed value objects for the notebook, an ordered list of
\* named values for the dataflow
Carried(cell, payload, k) ==
  LET ps == payload.executionData.parameters IN
    CASE cell = "pipeline" ->
           IF k = 1 THEN ps.pipeline_sample_param_01 ELSE ps.pipeline_sample_param_02
      [] cell = "notebook" ->
           IF k = 1 THEN ps.notebook_sample_param_01.value
                    ELSE ps.notebook_sample_param_02.value
      [] cell = "dataflow" ->
           LET name == IF k = 1 THEN "dataflow_sample_param_01"
                                ELSE "dataflow_sample_param_02"
               i == CHOOSE i \in 1..Len(ps) : ps[i].parameterName = name
           IN ps[i].value

\* C21: in each of the three samples the payload sent carries
\* scheduler_sample_param_01 as the artifact's parameter 01 and
\* scheduler_sample_param_02 as the artifact's parameter 02.
C21_PositionalPayload ==
  \A j \in 1..Len(requests) :
    /\ Carried(CellOf(j), requests[j].source_payload, 1) = FirstValue
    /\ Carried(CellOf(j), requests[j].source_payload, 2) = SecondValue

\* the same statement for the pipeline and the dataflow samples alone
C21_PipelineDataflow ==
  \A j \in 1..Len(requests) :
    CellOf(j) \in {"pipeline", "dataflow"} =>
      /\ Carried(CellOf(j), requests[j].source_payload, 1) = FirstValue
      /\ Carried(CellOf(j), requests[j].source_payload, 2) = SecondValue

\* the notebook sample sent a payload whose parameter 02 carries the value
\* of scheduler_sample_param_01
C21_NotebookSlip ==
  \E j \in 1..Len(requests) :
    /\ CellOf(j) = "notebook"
    /\ Carried("notebook", requests[j].source_payload, 2) = FirstValue

(* -------------------- the workspace of a sample cell -------------------- *)

\* line 141: a lookup that leaves the workspace out "will take the default
\* value", the workspace the notebook session runs in
DefaultWorkspace == CurrentWorkspace
LookedUpIn(l) == IF l.workspace = Omitted THEN DefaultWorkspace ELSE l.workspace
\* the {workspace_id} part of the URI of request j
TargetOf(j) == requests[j].source_uri[2]

\* C22: in whatever order the sample cells run after the imports cell, a
\* cell finds every variable of its URI defined (no cell run stops on an
\* undefined name) and the URI it sends targets the workspace in which it
\* looked the artifact up.
C22_SameWorkspace ==
  /\ \A i \in 1..Len(cellRuns) : cellRuns[i].outcome # "NameError"
  /\ \A j \in 1..Len(requests) :
       TargetOf(j) = LookedUpIn(lookups[requests[j].run])

\* the dataflow cell, run alone right after the imports cell, found the
\* artifact and stopped on the undefined workspace_id without a request
C22_DataflowAlone ==
  /\ Len(cellRuns) = 1 /\ cellRuns[1].cell = "dataflow"
  /\ lookups[1].result = ArtifactGuid
  /\ cellRuns[1].outcome = "NameError" /\ requests = <<>>

\* the dataflow cell sent a URI whose workspace an earlier cell had assigned
C22_DataflowInherits ==
  \E j \in 1..Len(requests) :
    /\ CellOf(j) = "dataflow" /\ requests[j].run > 1
    /\ TargetOf(j) = "YOUR_WORKSPACE_GUID/NAME_HERE"
    /\ lookups[requests[j].run].workspace = Omitted

\* the notebook cell, run alone, looked the artifact up without a workspace
\* and sent a URI for the workspace it had assigned to workspace_id
C22_NotebookAlone ==
  /\ Len(cellRuns) = 1 /\ cellRuns[1].cell = "notebook"
  /\ Len(requests) = 1 /\ lookups[1].workspace = Omitted
  /\ TargetOf(1) = "YOUR_WORKSPACE_GUID/NAME_HERE"

\* the pipeline cell alone keeps the two workspaces equal
C22_PipelineOnly ==
  \A j \in 1..Len(requests) :
    CellOf(j) = "pipeline" =>
      /\ TargetOf(j) = LookedUpIn(lookups[requests[j].run])
      /\ TargetOf(j) = CurrentWorkspace

(* ------------------------- the loop variables --------------------------- *)

\* the largest value $RetryCount takes: the catch counts while it is not
\* greater than three
RetryBound == RetryLimit + 1

\* the terminal error of the catch block has been raised
TerminalError(p) == pc[p] = "failed" /\ error[p] = Unable

LoopVariables(p) ==
  /\ RetryCount[p] = Len(Sleeps(p))
  /\ RetryCount[p] \in 0..RetryBound
  /\ StopLoop[p] =>
       \/ TerminalError(p) /\ AttemptThrew(p, attempt[p])
       \/ attempt[p] >= 1 /\ ~AttemptThrew(p, attempt[p]) /\ error[p] = ""

\* C23: in every reachable state of the retry loop of the start/stop and
\* the scale runbooks, RetryCount equals the number of sleeps performed so
\* far, is never reset or decremented (a step leaves it or adds one), and
\* stays within 0..4; StopLoop is true only after a non-failing attempt or
\* together with the terminal error.
C23_LoopVariables ==
  /\ [](\A p \in Procs : script[p] \in LoopScripts => LoopVariables(p))
  /\ [][\A p \in Procs : script[p] \in LoopScripts =>
          /\ RetryCount'[p] \in {RetryCount[p], RetryCount[p] + 1}
          /\ (StopLoop'[p] /\ ~StopLoop[p]) =>
               \/ TerminalError(p)' /\ ~TerminalError(p)
               \/ ~AttemptThrew(p, attempt[p])' ]_vars

\* a run of a loop script slept four times, counted four, and stopped its
\* loop together with the terminal error
C23_Witness ==
  \E p \in Procs :
    /\ script[p] \in LoopScripts /\ TerminalError(p) /\ StopLoop[p]
    /\ RetryCount[p] = RetryBound /\ Len(Sleeps(p)) = RetryBound

\* a run stopped its loop after a non-failing attempt that followed retries
C23_StoppedAfterRetry ==
  \E p \in Procs :
    /\ script[p] \in LoopScripts /\ StopLoop[p] /\ error[p] = ""
    /\ RetryCount[p] >= 1 /\ ~AttemptThrew(p, attempt[p])

====
